---- MODULE Spec2Model ----
(***************************************************************************)
(* A model of weather-dashboard/app.py: the favorites table and its two    *)
(* POST handlers (run by a threaded server, so their database statements   *)
(* interleave), the GET /weather handler with the two upstream fetches,    *)
(* and the forecast aggregation of get_forecast_data.                      *)
(*                                                                         *)
(* Strings the code transforms (city names, weather descriptions) are      *)
(* sequences of characters over a three-letter alphabet: one lower-case    *)
(* letter, its upper-case form and the space.  Temperatures are integers   *)
(* in tenths of a degree Celsius.  Timestamps are seconds since the epoch. *)
(***************************************************************************)
EXTENDS Integers, Sequences, FiniteSets, TLC

VARIABLES
    table,                \* rows of FavoriteCity: [id, city_name]
    pc,                   \* per request slot: where its handler stands
    city_name_title,      \* per request slot: add_favorite's local
    city_to_delete,       \* per request slot: remove_favorite's local (an id)
    last,                 \* the latest handler step: request and response
    wpc,                  \* GET /weather: where the handler stands
    current_weather_info, \* GET /weather: weather_api's local
    weather_response,     \* GET /weather: the latest request and response
    calls,                \* GET /weather: upstream calls of the latest request
    tz,                   \* forecast: the host's UTC offset, in seconds
    forecast_list,        \* forecast: the upstream body's 'list'
    forecast_result       \* forecast: what get_forecast_data returned

favVars == <<table, pc, city_name_title, city_to_delete, last>>
weatherVars == <<wpc, current_weather_info, weather_response, calls>>
forecastVars == <<tz, forecast_list, forecast_result>>
vars == <<table, pc, city_name_title, city_to_delete, last,
          wpc, current_weather_info, weather_response, calls, tz, forecast_list, forecast_result>>

(***************************************************************************)
(* Bounds of the model.                                                    *)
(***************************************************************************)
MaxNameLen == 2           \* longest city_name a request carries
MaxId == 2                \* largest primary key the table hands out

(***************************************************************************)
(* Characters and the string methods the code calls.                       *)
(***************************************************************************)
Alphabet == {"a", "A", " "}

IsLower(c) == c = "a"
IsUpper(c) == c = "A"
IsCased(c) == IsLower(c) \/ IsUpper(c)
IsSpace(c) == c = " "
Upper(c) == IF IsLower(c) THEN "A" ELSE c
Lower(c) == IF IsUpper(c) THEN "a" ELSE c

\* request.form.get / request.args.get of an absent field
None == <<"None">>

StringsUpTo(n) == UNION {[1..k -> Alphabet] : k \in 0..n}

\* str.title(): a cased character is upper-cased when the character before
\* it is not cased, lower-cased when it is.
RECURSIVE TitleFrom(_, _, _)
TitleFrom(s, i, previous_is_cased) ==
    IF i > Len(s) THEN << >>
    ELSE <<IF previous_is_cased THEN Lower(s[i]) ELSE Upper(s[i])>>
         \o TitleFrom(s, i + 1, IsCased(s[i]))

Title(s) == TitleFrom(s, 1, FALSE)

\* str.strip(): leading and trailing whitespace removed.
RECURSIVE LStrip(_)
LStrip(s) == IF s # << >> /\ IsSpace(Head(s)) THEN LStrip(Tail(s)) ELSE s

RECURSIVE RStrip(_)
RStrip(s) ==
    IF s # << >> /\ IsSpace(s[Len(s)]) THEN RStrip(SubSeq(s, 1, Len(s) - 1)) ELSE s

Strip(s) == LStrip(RStrip(s))

\* str.capitalize(): first character upper-cased, the rest lower-cased.
Capitalize(s) ==
    [i \in 1..Len(s) |-> IF i = 1 THEN Upper(s[i]) ELSE Lower(s[i])]

\* city_name.title().strip()
NormalizeCityName(city_name) == Strip(Title(city_name))

\* the test `is not None` in place of truthiness
IsNotNone(city_name) == city_name # None

\* `if city_name:`
Truthy(city_name) == city_name # None /\ city_name # << >>

(***************************************************************************)
(* The favorites table.                                                    *)
(***************************************************************************)
Requests == {"r1", "r2"}

CityNames == StringsUpTo(MaxNameLen) \cup {None}
CityIds == 0..MaxId

RowsNamed(name) == {row \in table : row.city_name = name}
RowsWithId(id) == {row \in table : row.id = id}

\* INTEGER PRIMARY KEY of SQLite: one more than the largest id in use
NextId == IF table = {} THEN 1
          ELSE (CHOOSE m \in {row.id : row \in table} :
                    \A row \in table : row.id <= m) + 1

Response(op, city_name, city_id, status, body) ==
    [op |-> op, city_name |-> city_name, city_id |-> city_id,
     status |-> status, body |-> body]

NoResponse == Response("none", None, 0, 0, "none")

FavInit ==
    /\ table = {}
    /\ pc = [r \in Requests |-> "idle"]
    /\ city_name_title = [r \in Requests |-> None]
    /\ city_to_delete = [r \in Requests |-> 0]
    /\ last = NoResponse

\* add_favorite looking the table up by the name as typed
add_favorite_raw_lookup(r, city_name) ==
    /\ pc[r] = "idle"
    /\ IF Truthy(city_name)
       THEN IF RowsNamed(city_name) # {}
            THEN /\ last' = Response("add", city_name, 0, 409, "City already saved!")
                 /\ UNCHANGED <<pc, city_name_title>>
            ELSE /\ pc' = [pc EXCEPT ![r] = "add_commit"]
                 /\ city_name_title' =
                        [city_name_title EXCEPT ![r] = NormalizeCityName(city_name)]
                 /\ last' = Response("add", city_name, 0, 0, "pending")
       ELSE /\ last' = Response("add", city_name, 0, 400, "City name is required.")
            /\ UNCHANGED <<pc, city_name_title>>
    /\ UNCHANGED <<table, city_to_delete, weatherVars, forecastVars>>

\* add_favorite up to its return or to the INSERT: the form field, the
\* normalisation and the SELECT ... WHERE city_name = ? of filter_by().first()
add_favorite(r, city_name) ==
    /\ pc[r] = "idle"
    /\ IF Truthy(city_name)
       THEN IF RowsNamed(NormalizeCityName(city_name)) # {}
            THEN /\ last' = Response("add", city_name, 0, 409, "City already saved!")
                 /\ UNCHANGED <<pc, city_name_title>>
            ELSE /\ pc' = [pc EXCEPT ![r] = "add_commit"]
                 /\ city_name_title' =
                        [city_name_title EXCEPT ![r] = NormalizeCityName(city_name)]
                 /\ last' = Response("add", city_name, 0, 0, "pending")
       ELSE /\ last' = Response("add", city_name, 0, 400, "City name is required.")
            /\ UNCHANGED <<pc, city_name_title>>
    /\ UNCHANGED <<table, city_to_delete, weatherVars, forecastVars>>

\* db.session.add + db.session.commit of add_favorite.  The column is
\* unique=True: an INSERT of a name some row holds raises IntegrityError,
\* which no handler catches, and the server answers 500 with the traceback.
add_favorite_commit(r) ==
    /\ pc[r] = "add_commit"
    /\ IF RowsNamed(city_name_title[r]) # {}
       THEN /\ last' = Response("add_commit", city_name_title[r], 0, 500,
                                "IntegrityError traceback")
            /\ UNCHANGED table
       ELSE /\ NextId <= MaxId
            /\ table' = table \cup {[id |-> NextId, city_name |-> city_name_title[r]]}
            /\ last' = Response("add_commit", city_name_title[r], NextId, 201,
                                "added to favorites!")
    /\ pc' = [pc EXCEPT ![r] = "idle"]
    /\ city_name_title' = [city_name_title EXCEPT ![r] = None]
    /\ UNCHANGED <<city_to_delete, weatherVars, forecastVars>>

\* remove_favorite up to its return or to the DELETE: get_or_404 inside the
\* try block.  get_or_404 aborts with werkzeug's NotFound, an Exception, so
\* `except Exception` catches it and the handler answers 500.
remove_favorite(r, city_id) ==
    /\ pc[r] = "idle"
    /\ IF RowsWithId(city_id) = {}
       THEN /\ last' = Response("remove", None, city_id, 500, "Error removing favorite.")
            /\ UNCHANGED <<pc, city_to_delete>>
       ELSE /\ pc' = [pc EXCEPT ![r] = "remove_commit"]
            /\ city_to_delete' = [city_to_delete EXCEPT ![r] = city_id]
            /\ last' = Response("remove", None, city_id, 0, "pending")
    /\ UNCHANGED <<table, city_name_title, weatherVars, forecastVars>>

\* db.session.delete + db.session.commit of remove_favorite: DELETE ... WHERE
\* id = ?.  When another request deleted the row in between, the DELETE
\* matches no row: the ORM either only warns (200) or raises StaleDataError,
\* which `except Exception` turns into 500.
remove_favorite_commit(r) ==
    /\ pc[r] = "remove_commit"
    /\ IF RowsWithId(city_to_delete[r]) # {}
       THEN /\ table' = table \ RowsWithId(city_to_delete[r])
            /\ last' = Response("remove_commit", None, city_to_delete[r], 200, "removed.")
       ELSE /\ UNCHANGED table
            /\ \/ last' = Response("remove_commit", None, city_to_delete[r], 200, "removed.")
               \/ last' = Response("remove_commit", None, city_to_delete[r], 500,
                                   "Error removing favorite.")
    /\ pc' = [pc EXCEPT ![r] = "idle"]
    /\ city_to_delete' = [city_to_delete EXCEPT ![r] = 0]
    /\ UNCHANGED <<city_name_title, weatherVars, forecastVars>>

FavNext ==
    \/ \E r \in Requests, city_name \in CityNames : add_favorite(r, city_name)
    \/ \E r \in Requests : add_favorite_commit(r)
    \/ \E r \in Requests, city_id \in CityIds : remove_favorite(r, city_id)
    \/ \E r \in Requests : remove_favorite_commit(r)

(***************************************************************************)
(* The upstream weather API, as the requests library shows it to the code. *)
(* A JSON value that is a dict is a record, `key in dict` is membership in *)
(* its DOMAIN, and a list returned beside dicts is wrapped as [list |-> _]. *)
(* Bodies are JSON objects; 'cod' is a tagged value, since the upstream    *)
(* sends the integer 200 on one endpoint and the string "200" on the other. *)
(***************************************************************************)
Cods == {"int:200", "str:200", "int:404", "str:404", "absent"}
StatusCodes == {200, 401, 404}
Temps == {104, 105, 115, -6}
Descriptions == {<<"a", " ", "A">>, <<"A", "a">>}

\* int() in place of round(): truncation toward zero
RoundTruncate(tenths) ==
    IF tenths >= 0 THEN tenths \div 10 ELSE -((-tenths) \div 10)

\* round() of Python 3 on a float given in tenths: to the nearest integer,
\* a tie to the even one.
Round(tenths) ==
    LET q == tenths \div 10
        rem == tenths % 10
    IN  IF rem < 5 THEN q
        ELSE IF rem > 5 THEN q + 1
        ELSE IF q % 2 = 0 THEN q ELSE q + 1

Body(cod, has_message, complete, temp, description, list) ==
    [cod |-> cod, has_message |-> has_message, message |-> "city not found",
     complete |-> complete, name |-> "Chennai", country |-> "IN", temp |-> temp,
     description |-> description, icon |-> "01d", humidity |-> 70,
     wind_speed |-> 36, list |-> list]

Upstream(transport, status_code, body) ==
    [transport |-> transport, status_code |-> status_code, body |-> body]

NoBody == Body("absent", FALSE, FALSE, 0, << >>, << >>)
NotCalled == Upstream("not called", 0, NoBody)
TransportFailure == Upstream("error", 0, NoBody)

\* what requests.get(CURRENT_WEATHER_URL) can give
CurrentUpstreams ==
    {TransportFailure} \cup
    {Upstream("ok", status_code, Body(cod, has_message, complete, temp, description, << >>)) :
        status_code \in StatusCodes, cod \in Cods, has_message \in BOOLEAN,
        complete \in BOOLEAN, temp \in Temps, description \in Descriptions}

\* get_weather_data, from the response requests.get gave.  A connection
\* error or timeout, and raise_for_status() on a 4xx/5xx status, raise a
\* RequestException; a missing key in a body with cod == 200 raises KeyError.
get_weather_data(response) ==
    IF response.transport # "ok" \/ response.status_code >= 400
    THEN [error |-> "Could not connect to the weather service."]
    ELSE IF response.body.cod = "int:200"
    THEN IF response.body.complete
         THEN [city |-> response.body.name,
               country |-> response.body.country,
               temperature |-> Round(response.body.temp),
               description |-> Capitalize(response.body.description),
               icon |-> response.body.icon,
               humidity |-> response.body.humidity,
               wind_speed |-> response.body.wind_speed]
         ELSE [error |-> "An internal server error occurred."]
    ELSE [error |-> IF response.body.has_message THEN response.body.message
                    ELSE "City not found or invalid response."]

(***************************************************************************)
(* The forecast aggregation.                                               *)
(***************************************************************************)
MaxDays == 5
RepresentativeIndex == 3

Min(a, b) == IF a <= b THEN a ELSE b

RECURSIVE MinOf(_)
MinOf(temps) ==
    IF Len(temps) = 1 THEN temps[1] ELSE Min(temps[1], MinOf(Tail(temps)))

RECURSIVE MaxOf(_)
MaxOf(temps) ==
    IF Len(temps) = 1 THEN temps[1]
    ELSE IF temps[1] >= MaxOf(Tail(temps)) THEN temps[1] ELSE MaxOf(Tail(temps))

\* datetime.fromtimestamp(dt) in the host's time zone, as the number of the
\* calendar day since 1970-01-01 (the '%Y-%m-%d' strings order as these do)
DateOf(dt) == (dt + tz) \div 86400

\* strftime('%a'): 1970-01-01 was a Thursday
DayName(date) == <<"Thu", "Fri", "Sat", "Sun", "Mon", "Tue", "Wed">>[(date % 7) + 1]

\* one iteration of `for item in forecast_data['list']` on the dict
\* daily_forecast, kept as its entries in insertion order
AddItem(daily_forecast, item) ==
    LET day == DateOf(item.dt)
        found == {i \in 1..Len(daily_forecast) : daily_forecast[i].date = day}
    IN  IF found = {}
        THEN Append(daily_forecast,
                    [date |-> day, name |-> DayName(day),
                     temperatures |-> <<item.temp>>,
                     icons |-> <<item.icon>>,
                     descriptions |-> <<item.description>>])
        ELSE [i \in 1..Len(daily_forecast) |->
                IF i \in found
                THEN [daily_forecast[i] EXCEPT
                        !.temperatures = Append(@, item.temp),
                        !.icons = Append(@, item.icon),
                        !.descriptions = Append(@, item.description)]
                ELSE daily_forecast[i]]

RECURSIVE DailyForecast(_, _)
DailyForecast(list, n) ==
    IF n = 0 THEN << >> ELSE AddItem(DailyForecast(list, n - 1), list[n])

\* the day's last sample as the representative
RepresentativeLast(temps) == Len(temps) - 1

\* representative_index = min(3, len(temps) - 1)
RepresentativeOf(temps) == Min(RepresentativeIndex, Len(temps) - 1)

\* the dict appended to processed_forecast for one day
ForecastDay(day_data) ==
    [day |-> day_data.name,
     date |-> day_data.date,
     temp_min |-> Round(MinOf(day_data.temperatures)),
     temp_max |-> Round(MaxOf(day_data.temperatures)),
     icon |-> day_data.icons[RepresentativeOf(day_data.temperatures) + 1],
     description |->
        Capitalize(day_data.descriptions[RepresentativeOf(day_data.temperatures) + 1])]

\* the loop left one entry late (`> 5` for `>= 5`)
EmittedOffByOne(unique_days) == Min(Len(unique_days), MaxDays + 1)

\* the loop over unique_days, left by `break` once 5 entries are appended
Emitted(unique_days) == Min(Len(unique_days), MaxDays)

ProcessForecast(list) ==
    LET daily_forecast == DailyForecast(list, Len(list))
    IN  [i \in 1..Emitted(daily_forecast) |-> ForecastDay(daily_forecast[i])]

\* get_forecast_data: the same failures as get_weather_data, with its own
\* messages and the string "200" as the success code
get_forecast_data(response) ==
    IF response.transport # "ok" \/ response.status_code >= 400
    THEN [error |-> "Could not connect to the weather service for forecast."]
    ELSE IF response.body.cod = "str:200"
    THEN IF response.body.complete
         THEN [list |-> ProcessForecast(response.body.list)]
         ELSE [error |-> "An internal server error occurred during forecast processing."]
    ELSE [error |-> IF response.body.has_message THEN response.body.message
                    ELSE "Forecast data not available."]

(***************************************************************************)
(* GET /weather.                                                           *)
(***************************************************************************)
Cities == {None, << >>, <<"a">>}

SampleTemps == {104, 105, 116}

Sample(dt, temp, icon, description) ==
    [dt |-> dt, temp |-> temp, icon |-> icon, description |-> description]

\* lists the forecast endpoint answers a /weather request with
WeatherLists ==
    {<< >>,
     <<Sample(0, 104, "01d", <<"a", " ", "A">>)>>,
     <<Sample(75600, 116, "10n", <<"A", "a">>), Sample(86400, 105, "01d", <<"a", "a">>)>>}

\* what requests.get(FORECAST_URL) can give
ForecastUpstreams ==
    {TransportFailure} \cup
    {Upstream("ok", status_code, Body(cod, has_message, complete, 0, << >>, list)) :
        status_code \in StatusCodes, cod \in Cods, has_message \in BOOLEAN,
        complete \in BOOLEAN, list \in WeatherLists}

WeatherResponse(city, current, forecast, status, body) ==
    [city |-> city, current |-> current, forecast |-> forecast,
     status |-> status, body |-> body]

Pending == [pending |-> TRUE]

WeatherInit ==
    /\ wpc = "idle"
    /\ current_weather_info = Pending
    /\ weather_response = WeatherResponse(None, NotCalled, NotCalled, 0, Pending)
    /\ calls = << >>

\* weather_api up to its 400 or to the first upstream request
weather_api(city) ==
    /\ wpc \in {"idle", "done"}
    /\ IF ~Truthy(city)
       THEN /\ weather_response' =
                   WeatherResponse(city, NotCalled, NotCalled, 400,
                                   [error |-> "Please provide a city name."])
            /\ wpc' = "done"
       ELSE /\ weather_response' =
                   WeatherResponse(city, NotCalled, NotCalled, 0, Pending)
            /\ wpc' = "get_weather_data"
    /\ current_weather_info' = Pending
    /\ calls' = << >>
    /\ UNCHANGED <<favVars, forecastVars>>

\* current_weather_info = get_weather_data(city), answered by the upstream
\* with `current`, and the check for "error" in it
weather_api_current(current) ==
    /\ wpc = "get_weather_data"
    /\ calls' = Append(calls, "current")
    /\ current_weather_info' = get_weather_data(current)
    /\ IF "error" \in DOMAIN get_weather_data(current)
       THEN /\ weather_response' =
                   [weather_response EXCEPT !.current = current, !.status = 404,
                                            !.body = get_weather_data(current)]
            /\ wpc' = "done"
       ELSE /\ weather_response' = [weather_response EXCEPT !.current = current]
            /\ wpc' = "get_forecast_data"
    /\ UNCHANGED <<favVars, forecastVars>>

\* weather_api failing the request when the forecast is an error object
weather_api_forecast_strict(forecast) ==
    /\ wpc = "get_forecast_data"
    /\ calls' = Append(calls, "forecast")
    /\ weather_response' =
           IF "error" \in DOMAIN get_forecast_data(forecast)
           THEN [weather_response EXCEPT !.forecast = forecast, !.status = 404,
                     !.body = get_forecast_data(forecast)]
           ELSE [weather_response EXCEPT !.forecast = forecast, !.status = 200,
                     !.body = [current |-> current_weather_info,
                               forecast |-> get_forecast_data(forecast)]]
    /\ wpc' = "done"
    /\ UNCHANGED <<current_weather_info, favVars, forecastVars>>

\* forecast_info = get_forecast_data(city), answered by the upstream with
\* `forecast`, and the combined response
weather_api_forecast(forecast) ==
    /\ wpc = "get_forecast_data"
    /\ calls' = Append(calls, "forecast")
    /\ weather_response' =
           [weather_response EXCEPT !.forecast = forecast, !.status = 200,
                !.body = [current |-> current_weather_info,
                          forecast |-> get_forecast_data(forecast)]]
    /\ wpc' = "done"
    /\ UNCHANGED <<current_weather_info, favVars, forecastVars>>

WeatherNext ==
    \/ \E city \in Cities : weather_api(city)
    \/ \E current \in CurrentUpstreams : weather_api_current(current)
    \/ \E forecast \in ForecastUpstreams : weather_api_forecast(forecast)

(***************************************************************************)
(* get_forecast_data on its own: the host's time zone and the upstream     *)
(* list are drawn at the start, then the function is applied.              *)
(***************************************************************************)
MaxSamples == 3           \* longest list of freely chosen samples
MaxFeed == 24             \* longest regular feed of samples

TzOffsets == {0, 19800}

SampleChoices ==
    {Sample(dt, temp, w[1], w[2]) :
        dt \in {0, 75600, 86400}, temp \in SampleTemps,
        w \in {<<"01d", <<"a", " ", "A">>>>, <<"10n", <<"A", "a">>>>}}

FreeLists == UNION {[1..n -> SampleChoices] : n \in 0..MaxSamples}

\* a day's temperatures and weather by 3-hour slot, 00:00 to 21:00 UTC
DayCurve == <<100, 110, 130, 180, 220, 210, 170, 130>>
SlotIcons == <<"01n", "02n", "03d", "04d", "09d", "10d", "11d", "13n">>
SlotOf(dt) == ((dt % 86400) \div 10800) + 1

\* a regular feed: n samples, `step` seconds apart, from `start`; `bias`
\* shifts the day's curve by tenths of a degree
Feed(start, n, step, bias) ==
    [i \in 1..n |->
        LET dt == start + (i - 1) * step IN
        Sample(dt, DayCurve[SlotOf(dt)] + bias, SlotIcons[SlotOf(dt)],
               IF SlotOf(dt) % 2 = 0 THEN <<"a", " ", "A">> ELSE <<"A", "a">>)]

Reverse(list) == [i \in 1..Len(list) |-> list[Len(list) + 1 - i]]

\* 3-hourly (as the upstream sends), 6-hourly and daily feeds
Feeds ==
    {Feed(slot * 10800, n, step, bias) :
        slot \in 0..7, n \in 1..MaxFeed, step \in {10800, 21600, 86400},
        bias \in {0, 5, 6}}

ForecastLists == FreeLists \cup Feeds \cup {Reverse(feed) : feed \in Feeds}

ForecastIdle ==
    /\ tz = 0
    /\ forecast_list = << >>
    /\ forecast_result = Pending

ForecastInit ==
    /\ tz \in TzOffsets
    /\ forecast_list \in ForecastLists
    /\ forecast_result = Pending

\* get_forecast_data on a 200 response whose body has cod "200" and the list
FetchForecast ==
    /\ forecast_result = Pending
    /\ forecast_result' =
           get_forecast_data(Upstream("ok", 200,
               Body("str:200", FALSE, TRUE, 0, << >>, forecast_list)))
    /\ UNCHANGED <<tz, forecast_list, favVars, weatherVars>>

(***************************************************************************)
(* The specifications: the favorites handlers, interleaved; GET /weather;  *)
(* the forecast function over its inputs.                                  *)
(***************************************************************************)
Init == FavInit /\ WeatherInit /\ ForecastIdle
Next == FavNext
Spec == Init /\ [][Next]_vars

SpecWeather == Init /\ [][WeatherNext]_vars

InitForecast == FavInit /\ WeatherInit /\ ForecastInit
SpecForecast == InitForecast /\ [][FetchForecast]_vars

(***************************************************************************)
(* The favorites claims, under Spec.                                       *)
(***************************************************************************)

\* `last` is rewritten by every handler step, so last' names the step taken:
\* op "add" and "remove" are the handlers' first steps, which query the
\* table, "add_commit" and "remove_commit" their INSERT and DELETE.

\* C1: for every state of the table and every id no row has, POST
\* /favorites/remove/<id> answers 404 and leaves the table unchanged.
C1_RemoveAbsentIdIs404 ==
    [][(last'.op = "remove" /\ RowsWithId(last'.city_id) = {})
           => (last'.status = 404 /\ table' = table)]_vars

\* C2: no two rows share a normalized (title-cased, trimmed) city_name, and an
\* add whose normalized name is the name of a row stored when the handler
\* queries the table answers 409 and inserts nothing.
C2_UniqueNormalizedNames ==
    /\ [](\A row1 \in table, row2 \in table :
             row1 # row2 =>
                 NormalizeCityName(row1.city_name) # NormalizeCityName(row2.city_name))
    /\ [][(/\ last'.op = "add"
           /\ last'.city_name \notin {None, << >>}
           /\ \E row \in table : row.city_name = NormalizeCityName(last'.city_name))
              => (last'.status = 409 /\ table' = table)]_vars

\* C2's case: "A " is refused with 409 while the row "A" is stored.
C2_Witness ==
    /\ last.op = "add"
    /\ last.status = 409
    /\ last.city_name = <<"A", " ">>
    /\ \E row \in table : row.city_name = <<"A">>

\* C3: under any interleaving of add requests, every request with a non-empty
\* city_name ends 201 or 409, none in an uncaught error, and a 201 is given
\* only for a name no row held, by the request that inserts it.
C3_ConcurrentAddsEndCreatedOrConflict ==
    /\ [](((last.op = "add" /\ last.body # "pending"
                  /\ last.city_name \notin {None, << >>})
              \/ last.op = "add_commit")
             => last.status \in {201, 409})
    /\ [][(last'.op = "add_commit" /\ last'.status = 201)
              => (RowsNamed(last'.city_name) = {}
                  /\ \E row \in table' : row.city_name = last'.city_name)]_vars

\* an input that carries no city name: absent, empty or only whitespace
CarriesNoCityName(city_name) == city_name = None \/ Strip(city_name) = << >>

\* C6: every row has a non-empty city_name, and an add whose input carries
\* no city name answers 400 and inserts nothing.
C6_NoEmptyCityName ==
    /\ [](\A row \in table : row.city_name # << >>)
    /\ [][(last'.op = "add" /\ CarriesNoCityName(last'.city_name))
              => (last'.status = 400 /\ table' = table)]_vars

(***************************************************************************)
(* The GET /weather claims, under SpecWeather.                             *)
(***************************************************************************)
NonSuccessCods == {"int:404", "str:404"}

\* C7: get_weather_data turns a transport failure into the ServiceUnavailable
\* error, and every response whose body carries a non-success code, whatever
\* its HTTP status, into the error with the body's message (or the default).
C7_CurrentFailureClassification ==
    calls # << >> =>
        /\ weather_response.current.transport = "error" =>
               current_weather_info = [error |-> "Could not connect to the weather service."]
        /\ (weather_response.current.transport = "ok"
               /\ weather_response.current.body.cod \in NonSuccessCods) =>
               current_weather_info =
                   [error |-> IF weather_response.current.body.has_message
                              THEN weather_response.current.body.message
                              ELSE "City not found or invalid response."]

\* C8: GET /weather with a missing or empty city answers 400 and issues no
\* upstream call, current or forecast, during that request.
C8_NoCityNoUpstreamCall ==
    (wpc # "idle" /\ weather_response.city \in {None, << >>}) =>
        /\ wpc = "done"
        /\ weather_response.status = 400
        /\ calls = << >>
        /\ weather_response.current = NotCalled
        /\ weather_response.forecast = NotCalled

\* C8's case: the request with the empty city was answered 400.
C8_Witness ==
    /\ wpc = "done"
    /\ weather_response.city = << >>
    /\ weather_response.status = 400

\* C9: with a city, the answer is 404 with the current fetch's error payload,
\* the forecast never fetched, exactly when the current fetch gives an error;
\* otherwise 200 with {current, forecast}, also when forecast is an error.
C9_WeatherStatusFollowsCurrent ==
    (wpc = "done" /\ weather_response.city \notin {None, << >>}) =>
        IF "error" \in DOMAIN get_weather_data(weather_response.current)
        THEN /\ weather_response.status = 404
             /\ weather_response.body = get_weather_data(weather_response.current)
             /\ calls = <<"current">>
             /\ weather_response.forecast = NotCalled
        ELSE /\ weather_response.status = 200
             /\ weather_response.body =
                    [current |-> get_weather_data(weather_response.current),
                     forecast |-> get_forecast_data(weather_response.forecast)]
             /\ calls = <<"current", "forecast">>

\* C9's case: 200 although the forecast value is an error object.
C9_Witness ==
    /\ wpc = "done"
    /\ weather_response.status = 200
    /\ "error" \in DOMAIN weather_response.body.forecast
    /\ "error" \notin DOMAIN weather_response.body.current

(***************************************************************************)
(* The forecast claims, under SpecForecast.                                *)
(***************************************************************************)
Returned == "list" \in DOMAIN forecast_result

\* the dates of the input's samples, in input order
InputDates == [i \in 1..Len(forecast_list) |-> DateOf(forecast_list[i].dt)]

\* every input sample of a calendar date, in arrival order
GroupOf(date) == SelectSeq(forecast_list, LAMBDA item : DateOf(item.dt) = date)

\* where a date first appears in the input
FirstSeen(date) ==
    CHOOSE i \in 1..Len(forecast_list) :
        /\ InputDates[i] = date
        /\ \A j \in 1..(i - 1) : InputDates[j] # date

\* C4, as claimed: for every input, in any order, at most 5 entries come
\* back and they are in strictly ascending order of date.
C4_AtMostFiveAscending ==
    Returned =>
        /\ Len(forecast_result.list) <= 5
        /\ \A i \in 1..Len(forecast_result.list), j \in 1..Len(forecast_result.list) :
               i < j => forecast_result.list[i].date < forecast_result.list[j].date

\* C4, amended: at most 5 entries come back, each for a date of the input,
\* in the order in which their dates first appear in the input (so no date
\* twice); strictly ascending by date when the input's dates never decrease.
C4_AtMostFiveFirstSeenOrder ==
    Returned =>
        /\ Len(forecast_result.list) <= 5
        /\ \A i \in 1..Len(forecast_result.list) :
               \E k \in 1..Len(forecast_list) : InputDates[k] = forecast_result.list[i].date
        /\ \A i \in 1..Len(forecast_result.list), j \in 1..Len(forecast_result.list) :
               i < j => FirstSeen(forecast_result.list[i].date)
                            < FirstSeen(forecast_result.list[j].date)
        /\ (\A a \in 1..Len(forecast_list), b \in 1..Len(forecast_list) :
                a < b => InputDates[a] <= InputDates[b])
           => \A i \in 1..Len(forecast_result.list), j \in 1..Len(forecast_result.list) :
                  i < j => forecast_result.list[i].date < forecast_result.list[j].date

\* C4's case: more than 5 dates, not in ascending order, cut to 5 entries.
C4_Witness ==
    /\ Returned
    /\ Len(forecast_result.list) = 5
    /\ Cardinality({InputDates[i] : i \in 1..Len(forecast_list)}) > 5
    /\ \E a \in 1..Len(forecast_list), b \in 1..Len(forecast_list) :
           a < b /\ InputDates[a] > InputDates[b]

\* C5, as claimed: temp_min and temp_max are integers and
\* temp_min <= ti <= temp_max for every temperature ti of the entry's group.
C5_MinMaxBoundEverySample ==
    Returned =>
        \A k \in 1..Len(forecast_result.list) :
            LET day == forecast_result.list[k]
                group == GroupOf(day.date)
            IN  /\ day.temp_min \in Int
                /\ day.temp_max \in Int
                /\ \A i \in 1..Len(group) :
                       /\ 10 * day.temp_min <= group[i].temp
                       /\ group[i].temp <= 10 * day.temp_max

\* C5, amended: temp_min and temp_max are integers, the group's least and
\* greatest temperature rounded to the nearest integer: temp_min <= temp_max,
\* temp_min is within half a degree of the least ti and temp_max of the
\* greatest, so temp_min - 0.5 <= ti <= temp_max + 0.5 for every ti; when
\* every ti is a whole number of degrees, temp_min <= ti <= temp_max.
C5_MinMaxRoundedWithinHalfDegree ==
    Returned =>
        \A k \in 1..Len(forecast_result.list) :
            LET day == forecast_result.list[k]
                group == GroupOf(day.date)
                temps == {group[i].temp : i \in 1..Len(group)}
                least == CHOOSE t \in temps : \A u \in temps : t <= u
                greatest == CHOOSE t \in temps : \A u \in temps : u <= t
            IN  /\ day.temp_min \in Int
                /\ day.temp_max \in Int
                /\ day.temp_min <= day.temp_max
                /\ least - 5 <= 10 * day.temp_min /\ 10 * day.temp_min <= least + 5
                /\ greatest - 5 <= 10 * day.temp_max /\ 10 * day.temp_max <= greatest + 5
                /\ \A t \in temps :
                       10 * day.temp_min - 5 <= t /\ t <= 10 * day.temp_max + 5
                /\ (\A t \in temps : t % 10 = 0)
                       => \A t \in temps :
                              10 * day.temp_min <= t /\ t <= 10 * day.temp_max

\* C5's case: a group of several fractional temperatures whose temp_min is
\* above its least temperature and whose temp_max is below its greatest.
C5_Witness ==
    /\ Returned
    /\ \E k \in 1..Len(forecast_result.list) :
           LET day == forecast_result.list[k]
               group == GroupOf(day.date)
           IN  /\ Len(group) > 1
               /\ \E i \in 1..Len(group) : group[i].temp < 10 * day.temp_min
               /\ \E i \in 1..Len(group) : group[i].temp > 10 * day.temp_max

\* the spec's example: one day's samples at hours 00, 03, ..., 21 with
\* temperatures 10, 11, 13, 18, 22, 21, 17, 13
ExampleList == Feed(0, 8, 10800, 0)

====
